---- MODULE Spec2Model ----
(***************************************************************************)
(* Model of the PDF text-extraction fallback engine                        *)
(* (app/pdf_parser.py: PDFParsingEngine, PDFProcessor) and of the batch    *)
(* driver of the command line (cli.py: process_files and friends).         *)
(*                                                                         *)
(* A provider's answer is an element of Outcomes: the provider raised, or  *)
(* it returned a text of some trimmed length.  An exception is identified  *)
(* by the provider that raised it.  The coroutines of the batch run on one *)
(* asyncio event loop: `running` is the file whose coroutine holds the     *)
(* loop (0: the loop is free), and a coroutine gives the loop up only      *)
(* where the code awaits something that suspends.                          *)
(***************************************************************************)
EXTENDS Integers, Sequences, FiniteSets, TLC

\* ------------------------------------------------------------------ bounds
NumFiles == 2
MaxWorkers == 2
MaxDocs == 1
\* provider exceptions the environment injects in one run
MaxRaises == 2
\* pages of one extracted text
MaxPages == 4

Files == 1..NumFiles

\* --------------------------------------------------------------- constants
Engines == {"upstage", "pymupdf", "pdfplumber", "tesseract"}

\* trimmed lengths a provider may return: empty, between the two thresholds,
\* above both
TextLens == {0, 21, 51}
Raise == [raised |-> TRUE, len |-> 0]
Text(n) == [raised |-> FALSE, len |-> n]
Outcomes == {Raise} \cup {Text(n) : n \in TextLens}

\* what validate_pdf_file / get_file_info can find about the path
FileKinds == {"ok", "missing", "not_pdf", "unreadable", "zero_pages"}

NoEngine == "None"

\* unset Optional field of a model object
None == "None"

\* document types a detection can carry (DocumentType), the ones the
\* pipeline is followed for
DetectedTypes == {"tax_invoice", "unknown"}

VARIABLES
    files,          \* the submitted paths (--files), numbered from 1
    preferred,      \* --engine option: the preferred provider
    hasKey,         \* UPSTAGE_API_KEY is set
    parallel,       \* --parallel and more than one file
    max_workers,    \* --max-workers
    pc,             \* per file: position of its coroutine
    file_kind,      \* per file: what the path turned out to be on entry
    order,          \* per file: engine_order of the running extract call
    idx,            \* per file: 1-based position of the for loop in order
    attempts,       \* per file: <<engine, outcome>> of every provider call
                    \*   that returned during the current process_single_pdf
    inflight,       \* per file: providers called and not yet returned
    last_error,     \* per file: local last_error of extract_text_from_pdf
    result,         \* per file: the PDFProcessingResult being built
    semaphore,      \* permits left in asyncio.Semaphore(max_workers)
    running,        \* file whose coroutine holds the event loop, or 0
    completed,      \* files whose process_single_pdf returned, oldest first
    results,        \* the list `results` of the batch driver
    engine_stats,   \* PDFParsingEngine.engine_stats
    raised,         \* history: per provider, number of calls that raised
    run_log,        \* history: per file, the provider answers of its run,
                    \*   what the detectors found on the accepted text,
                    \*   and the rank of its return among the returns
    \* one call of EnhancedDocumentDetector._expand_document_ranges
    strong_pages,   \* argument: page numbers that meet the threshold
    weak_pages,     \* argument: page numbers with a score below it
    groups,         \* local `groups`, once built
    ranges,         \* the returned list of (start_page, end_page)
    rpc,            \* position of the call
    \* detection and field extraction of process_pdf on one extracted text
    text,           \* the extracted text: its pages, in order
    pages,          \* local `pages` of detect_documents_in_pages
    page_num,       \* its loop counter, 1-based
    individual_docs, \* its list of (type, confidence, page range)
    page_scores,    \* _calculate_page_scores of every page of `pages`
    detections,     \* local `detections` of process_pdf
    dpc,            \* position in process_pdf / detect_documents_in_pages
    \* one call of DataExtractor.extract_data
    document_type,  \* argument: the document type
    searches,       \* per pattern of the type's list field, in list order,
                    \*   what pattern.search(text) gives
    date_text,      \* the part of the text that holds a date
    data,           \* the returned dict
    xpc             \* position of the call

pipeline == <<files, preferred, hasKey, parallel, max_workers, pc, file_kind,
              order, idx, attempts, inflight, last_error, result, semaphore,
              running, completed, results, engine_stats, raised, run_log>>

expander == <<strong_pages, weak_pages, groups, ranges, rpc>>

detector == <<text, pages, page_num, individual_docs, page_scores,
              detections, dpc>>

extractor == <<document_type, searches, date_text, data, xpc>>

vars == <<pipeline, expander, detector, extractor>>

config == <<files, preferred, hasKey, parallel, max_workers>>

\* what the pipeline leaves alone: the state of the calls followed on
\* their own
others == <<expander, detector, extractor>>

Range(s) == {s[i] : i \in 1..Len(s)}
Min(S) == CHOOSE x \in S : \A y \in S : x <= y
Max(S) == CHOOSE x \in S : \A y \in S : x >= y
Last(q) == q[Len(q)]

\* ------------------------------------------------------- pure definitions
default_order == <<"upstage", "pymupdf", "pdfplumber", "tesseract">>

get_engine_order_dup(preferred_engine) ==
    <<preferred_engine>> \o default_order

\* the providers that were not accepted yet before the others
get_engine_order_least_used(preferred_engine) ==
    LET base == IF preferred_engine \in Range(default_order)
                THEN <<preferred_engine>> \o
                     SelectSeq(default_order, LAMBDA e : e # preferred_engine)
                ELSE default_order
    IN SelectSeq(base, LAMBDA e : engine_stats[e].success = 0) \o
       SelectSeq(base, LAMBDA e : engine_stats[e].success > 0)

get_engine_order(preferred_engine) ==
    IF preferred_engine \in Range(default_order)
    THEN <<preferred_engine>> \o
         SelectSeq(default_order, LAMBDA e : e # preferred_engine)
    ELSE default_order

min_length(engine) == IF engine = "upstage" THEN 20 ELSE 50

Accepts_one_threshold(engine, out) ==
    ~out.raised /\ out.len > min_length("upstage")

Accepts_at_least(engine, out) ==
    ~out.raised /\ out.len >= min_length(engine)

\* `text and len(text.strip()) > min_length`
Accepts(engine, out) == ~out.raised /\ out.len > min_length(engine)

validate_pdf_file_pages(kind) == kind \in {"ok", "zero_pages"}

\* is_valid: the path exists, ends in .pdf, opens, and has a page
validate_pdf_file(kind) == kind = "ok"

NoResult == [status |-> "none", file |-> 0, primary_engine |-> NoEngine,
             extraction_engines_used |-> <<>>, errors |-> <<>>,
             warnings |-> <<>>, detected_documents |-> <<>>,
             processing_end_time |-> None, results_saved_to |-> None]

\* PDFProcessingResult(...) with the defaults of the model class
PDFProcessingResult(f, st) ==
    [status |-> st, file |-> f, primary_engine |-> "upstage",
     extraction_engines_used |-> <<>>, errors |-> <<>>,
     warnings |-> <<>>, detected_documents |-> <<>>,
     processing_end_time |-> None, results_saved_to |-> None]

\* DocumentDetection(...): its type and the extraction_engine written into
\* its extracted fields (NoEngine: no field, extract_data returns {} for
\* an unknown type)
DocumentDetection(t, engine) ==
    [document_type |-> t,
     extraction_engine |-> IF t = "unknown" THEN NoEngine ELSE engine]

\* the detections process_pdf builds: one per span of the enhanced
\* detector, or the single detection of the legacy detector when the
\* enhanced one found nothing
Detections(n, t, engine) ==
    IF n = 0
    THEN <<DocumentDetection(t, engine)>>
    ELSE [i \in 1..n |-> DocumentDetection(t, engine)]

\* nothing was asked of any provider yet
NoRun == [calls |-> <<>>, detected |-> <<>>, finished |-> 0]

add_error_dropped(r, kind, cause) == r

\* result.add_error(message)
add_error(r, kind, cause) ==
    [r EXCEPT !.errors = Append(@, [kind |-> kind, cause |-> cause])]

RecordSuccess(stats, engine) ==
    [stats EXCEPT ![engine].success = @ + 1]

RecordFailure_reset(stats, engine) ==
    [stats EXCEPT ![engine].failure = 1]

RecordFailure(stats, engine) ==
    [stats EXCEPT ![engine].failure = @ + 1]

\* ------------------------------------------------------------------- Init
\* Either one file with any engine option, or a batch of NumFiles files
\* with the default engine option of the command line (upstage).
PipelineInit ==
    /\ \/ /\ files = {1}
          /\ preferred \in Engines
          /\ hasKey \in BOOLEAN
          /\ parallel = FALSE
       \/ /\ files = Files
          /\ preferred = "upstage"
          /\ hasKey = TRUE
          /\ parallel \in BOOLEAN
    /\ preferred = "upstage" => hasKey      \* process_files returns otherwise
    /\ max_workers \in 1..MaxWorkers
    /\ ~parallel => max_workers = 1        \* unused in sequential mode
    /\ pc = [f \in Files |-> "queued"]
    /\ file_kind = [f \in Files |-> "unknown"]
    /\ order = [f \in Files |-> <<>>]
    /\ idx = [f \in Files |-> 0]
    /\ attempts = [f \in Files |-> <<>>]
    /\ inflight = [f \in Files |-> {}]
    /\ last_error = [f \in Files |-> NoEngine]
    /\ result = [f \in Files |-> NoResult]
    /\ semaphore = max_workers
    /\ running = 0
    /\ completed = <<>>
    /\ results = <<>>
    /\ engine_stats = [e \in Engines |-> [success |-> 0, failure |-> 0]]
    /\ raised = [e \in Engines |-> 0]
    /\ run_log = [f \in Files |-> NoRun]

\* the pipeline before a run of one file with the default options
PipelineIdle ==
    /\ PipelineInit
    /\ files = {1} /\ preferred = "upstage" /\ hasKey /\ ~parallel

\* no call of _expand_document_ranges under way
ExpanderIdle ==
    /\ strong_pages = {} /\ weak_pages = {}
    /\ groups = <<>> /\ ranges = <<>> /\ rpc = "idle"

\* no text under detection
DetectorIdle ==
    /\ text = <<>> /\ pages = <<>> /\ page_num = 0
    /\ individual_docs = <<>> /\ page_scores = <<>>
    /\ detections = <<>> /\ dpc = "idle"

\* no call of extract_data under way
ExtractorIdle ==
    /\ document_type = "unknown" /\ searches = <<>> /\ date_text = <<>>
    /\ data = <<>> /\ xpc = "idle"

Init == PipelineInit /\ ExpanderIdle /\ DetectorIdle /\ ExtractorIdle

\* `if parallel and len(files) > 1`
ParallelMode == parallel /\ Cardinality(files) > 1

\* ---------------------------------------------------------------- actions
\* sequential mode: the driver awaits process_single_pdf for the files in
\* order, one after the other
StartSequential(f) ==
    /\ f \in files
    /\ ~ParallelMode
    /\ pc[f] = "queued"
    /\ running = 0
    /\ \A g \in files : g < f => pc[g] = "collected"
    /\ pc' = [pc EXCEPT ![f] = "entered"]
    /\ running' = f
    /\ UNCHANGED <<config, others, run_log, file_kind, order, idx, attempts, inflight,
                   last_error, result,
                   semaphore, completed, results, engine_stats, raised>>

\* parallel mode: `async with semaphore` finds a permit
AcquireSemaphore(f) ==
    /\ f \in files
    /\ ParallelMode
    /\ pc[f] \in {"queued", "waiting"}
    /\ running = 0
    /\ semaphore > 0
    /\ semaphore' = semaphore - 1
    /\ pc' = [pc EXCEPT ![f] = "entered"]
    /\ running' = f
    /\ UNCHANGED <<config, others, run_log, file_kind, order, idx, attempts, inflight,
                   last_error, result,
                   completed, results, engine_stats, raised>>

\* parallel mode: `async with semaphore` finds no permit and suspends
WaitSemaphore(f) ==
    /\ f \in files
    /\ ParallelMode
    /\ pc[f] = "queued"
    /\ running = 0
    /\ semaphore = 0
    /\ pc' = [pc EXCEPT ![f] = "waiting"]
    /\ UNCHANGED <<config, others, run_log, file_kind, order, idx, attempts, inflight,
                   last_error, result,
                   semaphore, running, completed, results, engine_stats,
                   raised>>

\* process_pdf on a path that does not exist: get_file_info returns a dict
\* without "stem", file_info["stem"] raises before the try block, and the
\* except branch of process_single_pdf builds the error result
ProcessPdfRaises(f) ==
    /\ pc[f] = "entered"
    /\ running = f
    /\ file_kind' = [file_kind EXCEPT ![f] = "missing"]
    /\ result' = [result EXCEPT ![f] =
                    add_error(PDFProcessingResult(f, "failed"),
                              "KeyError", "missing")]
    /\ pc' = [pc EXCEPT ![f] = "assembled"]
    /\ UNCHANGED <<config, others, run_log, order, idx, attempts, inflight, last_error,
                   semaphore, running, completed, results, engine_stats,
                   raised>>

\* process_pdf creates the result; extract_text_from_pdf raises ValueError
\* on the failed validation; process_pdf catches it
ValidationFails(f, kind) ==
    /\ pc[f] = "entered"
    /\ running = f
    /\ kind # "missing"
    /\ ~validate_pdf_file(kind)
    /\ file_kind' = [file_kind EXCEPT ![f] = kind]
    /\ result' = [result EXCEPT ![f] =
                    [add_error(PDFProcessingResult(f, "processing"),
                               "ValueError", kind)
                       EXCEPT !.status = "failed"]]
    /\ pc' = [pc EXCEPT ![f] = "status_set"]
    /\ UNCHANGED <<config, others, run_log, order, idx, attempts, inflight, last_error,
                   semaphore, running, completed, results, engine_stats,
                   raised>>

\* process_pdf creates the result; extract_text_from_pdf validates the file
\* and builds the engine order
BeginExtraction(f, kind) ==
    /\ pc[f] = "entered"
    /\ running = f
    /\ kind # "missing"
    /\ validate_pdf_file(kind)
    /\ file_kind' = [file_kind EXCEPT ![f] = kind]
    /\ result' = [result EXCEPT ![f] = PDFProcessingResult(f, "processing")]
    /\ order' = [order EXCEPT ![f] = get_engine_order(preferred)]
    /\ idx' = [idx EXCEPT ![f] = 1]
    /\ last_error' = [last_error EXCEPT ![f] = NoEngine]
    /\ pc' = [pc EXCEPT ![f] = "loop"]
    /\ UNCHANGED <<config, others, run_log, attempts, inflight, semaphore, running, completed,
                   results, engine_stats, raised>>

\* _extract_with_upstage suspends in `await asyncio.to_thread(...)`; the
\* other providers (and upstage without a key) never await
Suspends(engine) == engine = "upstage" /\ hasKey

\* `text = await self._extract_with_engine(file_path, engine)`: the call
InvokeEngine(f) ==
    /\ pc[f] = "loop"
    /\ running = f
    /\ idx[f] <= Len(order[f])
    /\ LET e == order[f][idx[f]] IN
         /\ inflight' = [inflight EXCEPT ![f] = @ \cup {e}]
         /\ pc' = [pc EXCEPT ![f] = IF Suspends(e) THEN "awaiting"
                                                   ELSE "calling"]
         /\ running' = IF Suspends(e) THEN 0 ELSE f
    /\ UNCHANGED <<config, others, run_log, file_kind, order, idx, attempts, last_error,
                   result,
                   semaphore, completed, results, engine_stats, raised>>

\* where the for loop goes after a provider answer that was not accepted
AfterReject(f) ==
    IF idx[f] + 1 > Len(order[f]) THEN "exhausted" ELSE "loop"

\* exceptions raised so far by providers that were really called
Injected ==
    LET n(e) == IF e = "upstage" /\ ~hasKey THEN 0 ELSE raised[e]
    IN n("upstage") + n("pymupdf") + n("pdfplumber") + n("tesseract")

\* the provider answers and the loop body handles the answer
EngineReturns(f, out) ==
    /\ \/ pc[f] = "calling" /\ running = f
       \/ pc[f] = "awaiting" /\ running = 0
    /\ LET e == order[f][idx[f]] IN
         /\ IF e = "upstage" /\ ~hasKey
            THEN out = Raise        \* ValueError: no API key
            ELSE out.raised => Injected < MaxRaises
         /\ inflight' = [inflight EXCEPT ![f] = @ \ {e}]
         /\ attempts' = [attempts EXCEPT ![f] = Append(@, <<e, out>>)]
         /\ run_log' = [run_log EXCEPT ![f].calls = Append(@, <<e, out>>)]
         /\ running' = f
         /\ IF Accepts(e, out)
            THEN /\ engine_stats' = RecordSuccess(engine_stats, e)
                 /\ pc' = [pc EXCEPT ![f] = "extracted"]
                 /\ UNCHANGED <<idx, last_error, raised>>
            ELSE /\ idx' = [idx EXCEPT ![f] = @ + 1]
                 /\ pc' = [pc EXCEPT ![f] = AfterReject(f)]
                 /\ IF out.raised
                    THEN /\ last_error' = [last_error EXCEPT ![f] = e]
                         /\ engine_stats' = RecordFailure(engine_stats, e)
                         /\ raised' = [raised EXCEPT ![e] = @ + 1]
                    ELSE UNCHANGED <<last_error, engine_stats, raised>>
    /\ UNCHANGED <<config, others, file_kind, order, result, semaphore,
                   completed, results>>

\* the HTTP request of _extract_with_upstage never completes: requests.post
\* is given no timeout and the await is not wrapped in one, so the
\* coroutine stays suspended (the local providers are taken to terminate)
EngineHangs(f) ==
    /\ pc[f] = "awaiting"
    /\ pc' = [pc EXCEPT ![f] = "hung"]
    /\ UNCHANGED <<config, others, run_log, file_kind, order, idx, attempts, inflight,
                   last_error, result,
                   semaphore, running, completed, results, engine_stats,
                   raised>>

CompletedResult_preferred(r, used_engine, n, t) ==
    [r EXCEPT !.extraction_engines_used = Append(@, preferred),
              !.primary_engine = preferred,
              !.detected_documents = Detections(n, t, used_engine),
              !.status = "completed"]

\* what process_pdf writes into the result after extract_text_from_pdf
\* returned (text, used_engine, time)
CompletedResult(r, used_engine, n, t) ==
    [r EXCEPT !.extraction_engines_used = Append(@, used_engine),
              !.primary_engine = used_engine,
              !.detected_documents = Detections(n, t, used_engine),
              !.status = "completed"]

\* process_pdf after a successful extraction: detection (n spans found by
\* the enhanced detector, the legacy detector as fallback when n = 0 and
\* then a type t that may be unknown), field extraction, status COMPLETED
Classify(f, n, t) ==
    /\ pc[f] = "extracted"
    /\ running = f
    /\ n > 0 => t # "unknown"
    /\ result' = [result EXCEPT ![f] =
                    CompletedResult(@, order[f][idx[f]], n, t)]
    /\ run_log' = [run_log EXCEPT ![f].detected = <<n, t>>]
    /\ pc' = [pc EXCEPT ![f] = "status_set"]
    /\ UNCHANGED <<config, others, file_kind, order, idx, attempts, inflight,
                   last_error,
                   semaphore, running, completed, results, engine_stats,
                   raised>>

\* the for loop ended without an accepted text: RuntimeError with
\* last_error in its message, caught by process_pdf
AllEnginesFailed(f) ==
    /\ pc[f] = "exhausted"
    /\ running = f
    /\ result' = [result EXCEPT ![f] =
                    [add_error(@, "RuntimeError", last_error[f])
                       EXCEPT !.status = "failed"]]
    /\ pc' = [pc EXCEPT ![f] = "status_set"]
    /\ UNCHANGED <<config, others, run_log, file_kind, order, idx, attempts, inflight,
                   last_error,
                   semaphore, running, completed, results, engine_stats,
                   raised>>

\* the tail of process_pdf, after the try statement that set the status:
\* processing_end_time and processing_duration_seconds are written
ProcessPdfTail(f) ==
    /\ pc[f] = "status_set"
    /\ running = f
    /\ result' = [result EXCEPT ![f].processing_end_time = "set"]
    /\ pc' = [pc EXCEPT ![f] = "assembled"]
    /\ UNCHANGED <<config, others, run_log, file_kind, order, idx, attempts, inflight,
                   last_error,
                   semaphore, running, completed, results, engine_stats,
                   raised>>

\* the loop of process_single_pdf over result.detected_documents: every
\* detection of a known type has its fields extracted again, with the
\* engine option of the command line, and written over the old ones
ReExtract(r, engine) ==
    [r EXCEPT !.detected_documents =
        [i \in 1..Len(@) |->
           IF @[i].document_type # "unknown"
           THEN [@[i] EXCEPT !.extraction_engine = engine]
           ELSE @[i]]]

\* process_single_pdf returns its result and its locals are gone; in
\* parallel mode the semaphore is released on the way out
ReturnResult(f) ==
    /\ pc[f] = "assembled"
    /\ running = f
    /\ result' = [result EXCEPT ![f] = ReExtract(@, preferred)]
    /\ pc' = [pc EXCEPT ![f] = "returned"]
    /\ completed' = Append(completed, f)
    /\ attempts' = [attempts EXCEPT ![f] = <<>>]
    /\ order' = [order EXCEPT ![f] = <<>>]
    /\ idx' = [idx EXCEPT ![f] = 0]
    /\ last_error' = [last_error EXCEPT ![f] = NoEngine]
    /\ semaphore' = IF ParallelMode THEN semaphore + 1 ELSE semaphore
    /\ running' = 0
    /\ run_log' = [run_log EXCEPT ![f].finished =
                     Cardinality({g \in files : run_log[g].finished > 0}) + 1]
    /\ UNCHANGED <<config, others, file_kind, inflight, results,
                   engine_stats, raised>>

\* the results taken in the order of the submitted files
Collect_in_submission_order ==
    /\ running = 0
    /\ completed # <<>>
    /\ LET f == Min(Range(completed)) IN
         /\ results' = Append(results, result[f])
         /\ pc' = [pc EXCEPT ![f] = "collected"]
         /\ completed' = SelectSeq(completed, LAMBDA g : g # f)
    /\ UNCHANGED <<config, others, run_log, file_kind, order, idx, attempts,
                   inflight, last_error, result, semaphore, running,
                   engine_stats, raised>>

Collect_only_completed ==
    /\ running = 0
    /\ completed # <<>>
    /\ LET f == Head(completed) IN
         /\ results' = IF result[f].status = "completed"
                       THEN Append(results, result[f]) ELSE results
         /\ pc' = [pc EXCEPT ![f] = "collected"]
    /\ completed' = Tail(completed)
    /\ UNCHANGED <<config, others, run_log, file_kind, order, idx, attempts, inflight,
                   last_error, result, semaphore, running, engine_stats,
                   raised>>

\* the driver takes the next finished result: `results.append(result)`
Collect ==
    /\ running = 0
    /\ completed # <<>>
    /\ LET f == Head(completed) IN
         /\ results' = Append(results, result[f])
         /\ pc' = [pc EXCEPT ![f] = "collected"]
    /\ completed' = Tail(completed)
    /\ UNCHANGED <<config, others, run_log, file_kind, order, idx, attempts, inflight,
                   last_error, result,
                   semaphore, running, engine_stats, raised>>

\* save_and_display_results, once the driver has every result: the next
\* completed result is dumped to its JSON file and results_saved_to is
\* assigned; `results` holds the very objects the files' coroutines built
SaveResult ==
    /\ running = 0
    /\ \A f \in files : pc[f] = "collected"
    /\ \E i \in 1..Len(results) :
         /\ results[i].status = "completed"
         /\ results[i].results_saved_to = None
         /\ \A j \in 1..(i - 1) :
              results[j].status = "completed" =>
                results[j].results_saved_to # None
         /\ results' = [results EXCEPT ![i].results_saved_to = "saved"]
         /\ result' = [result EXCEPT
                         ![results[i].file].results_saved_to = "saved"]
    /\ UNCHANGED <<config, others, run_log, pc, file_kind, order, idx, attempts, inflight,
                   last_error, semaphore, running, completed, engine_stats,
                   raised>>

Next ==
    \/ \E f \in Files : StartSequential(f)
    \/ \E f \in Files : AcquireSemaphore(f)
    \/ \E f \in Files : WaitSemaphore(f)
    \/ \E f \in Files : ProcessPdfRaises(f)
    \/ \E f \in Files, kind \in FileKinds : ValidationFails(f, kind)
    \/ \E f \in Files, kind \in FileKinds : BeginExtraction(f, kind)
    \/ \E f \in Files : InvokeEngine(f)
    \/ \E f \in Files, out \in Outcomes : EngineReturns(f, out)
    \/ \E f \in Files : EngineHangs(f)
    \/ \E f \in Files, n \in 0..MaxDocs, t \in DetectedTypes : Classify(f, n, t)
    \/ \E f \in Files : AllEnginesFailed(f)
    \/ \E f \in Files : ProcessPdfTail(f)
    \/ \E f \in Files : ReturnResult(f)
    \/ Collect
    \/ SaveResult

Spec == Init /\ [][Next]_vars

\* the event loop runs every coroutine that is ready, and a request that is
\* going to complete does complete; nothing forces a hanging request to end
FileStep(f) ==
    \/ StartSequential(f) \/ AcquireSemaphore(f) \/ WaitSemaphore(f)
    \/ ProcessPdfRaises(f)
    \/ \E kind \in FileKinds : ValidationFails(f, kind)
    \/ \E kind \in FileKinds : BeginExtraction(f, kind)
    \/ InvokeEngine(f)
    \/ \E out \in Outcomes : EngineReturns(f, out)
    \/ \E n \in 0..MaxDocs, t \in DetectedTypes : Classify(f, n, t)
    \/ AllEnginesFailed(f)
    \/ ProcessPdfTail(f)
    \/ ReturnResult(f)

FairSpec ==
    /\ Spec
    /\ \A f \in Files : WF_vars(FileStep(f))
    /\ WF_vars(Collect)
    /\ WF_vars(SaveResult)

\* ------------------------------------- one file, texts at the thresholds
\* trimmed lengths at and around the two minimum lengths
BoundaryLens == {0, 20, 21, 50, 51}
BoundaryOutcomes == {Raise} \cup {Text(n) : n \in BoundaryLens}

\* one file, any engine option
BoundaryInit ==
    /\ PipelineInit /\ files = {1}
    /\ ExpanderIdle /\ DetectorIdle /\ ExtractorIdle

BoundaryNext ==
    \/ StartSequential(1)
    \/ ProcessPdfRaises(1)
    \/ \E kind \in FileKinds : ValidationFails(1, kind)
    \/ \E kind \in FileKinds : BeginExtraction(1, kind)
    \/ InvokeEngine(1)
    \/ \E out \in BoundaryOutcomes : EngineReturns(1, out)
    \/ EngineHangs(1)
    \/ \E n \in 0..MaxDocs, t \in DetectedTypes : Classify(1, n, t)
    \/ AllEnginesFailed(1)
    \/ ProcessPdfTail(1)
    \/ ReturnResult(1)
    \/ Collect
    \/ SaveResult

BoundarySpec == BoundaryInit /\ [][BoundaryNext]_vars

\* ------------------------------------------- _expand_document_ranges
RECURSIVE Sorted(_)
\* list.sort() of a list of distinct page numbers
Sorted(S) == IF S = {} THEN <<>> ELSE <<Min(S)>> \o Sorted(S \ {Min(S)})

RECURSIVE GroupFrom_gap2(_, _, _, _)
GroupFrom_gap2(sp, i, done, current_group) ==
    IF i > Len(sp) THEN Append(done, current_group)
    ELSE IF sp[i] <= Last(current_group) + 2
         THEN GroupFrom_gap2(sp, i + 1, done, Append(current_group, sp[i]))
         ELSE GroupFrom_gap2(sp, i + 1, Append(done, current_group), <<sp[i]>>)

RECURSIVE GroupFrom(_, _, _, _)
\* the grouping loop from index i on: a strong page joins the current
\* group when it is at most one page after the group's last page
GroupFrom(sp, i, done, current_group) ==
    IF i > Len(sp) THEN Append(done, current_group)
    ELSE IF sp[i] <= Last(current_group) + 1
         THEN GroupFrom(sp, i + 1, done, Append(current_group, sp[i]))
         ELSE GroupFrom(sp, i + 1, Append(done, current_group), <<sp[i]>>)

ExpandStart_upto3(group, weak) ==
    LET start_page == group[1]
        cand == {w \in weak : w < start_page /\ w >= start_page - 3}
    IN IF cand = {} THEN start_page ELSE Max(cand)

\* `for weak_page in reversed(weak_pages)`: the first weak page, from the
\* end, that lies before start_page and not further than one page
ExpandStart(group, weak) ==
    LET start_page == group[1]
        cand == {w \in weak : w < start_page /\ w >= start_page - 1}
    IN IF cand = {} THEN start_page ELSE Max(cand)

\* `for weak_page in weak_pages`: the first weak page that lies after
\* end_page and not further than one page
ExpandEnd(group, weak) ==
    LET end_page == Last(group)
        cand == {w \in weak : w > end_page /\ w <= end_page + 1}
    IN IF cand = {} THEN end_page ELSE Min(cand)

\* inputs of a call: any strong and weak pages of a text of MaxPages pages
ExpanderInit ==
    /\ PipelineIdle /\ DetectorIdle /\ ExtractorIdle
    /\ strong_pages \in SUBSET (1..MaxPages)
    /\ weak_pages \in SUBSET ((1..MaxPages) \ strong_pages)
    /\ groups = <<>> /\ ranges = <<>>
    /\ rpc = "called"

\* `if not strong_pages: return []`
ReturnNoRange ==
    /\ rpc = "called"
    /\ strong_pages = {}
    /\ rpc' = "returned"
    /\ UNCHANGED <<pipeline, detector, extractor, strong_pages, weak_pages, groups,
                   ranges>>

\* the two sorts and the grouping loop
GroupStrongPages ==
    /\ rpc = "called"
    /\ strong_pages # {}
    /\ LET sp == Sorted(strong_pages) IN
         groups' = GroupFrom(sp, 2, <<>>, <<sp[1]>>)
    /\ rpc' = "grouped"
    /\ UNCHANGED <<pipeline, detector, extractor, strong_pages, weak_pages, ranges>>

\* the loop over the groups, and the return
ExpandGroups ==
    /\ rpc = "grouped"
    /\ ranges' = [g \in 1..Len(groups) |->
                    <<ExpandStart(groups[g], weak_pages),
                      ExpandEnd(groups[g], weak_pages)>>]
    /\ rpc' = "returned"
    /\ UNCHANGED <<pipeline, detector, extractor, strong_pages, weak_pages, groups>>

ExpanderNext == ReturnNoRange \/ GroupStrongPages \/ ExpandGroups

ExpanderSpec ==
    ExpanderInit /\ [][ExpanderNext]_vars

\* ------------------------------------- detection on one extracted text
\* A page of text is described by what the detectors and the extractor
\* look at: its stripped length, how often each marker (a piece of text
\* that patterns and keywords match) occurs in it, and the amount text that
\* follows the marker 공급가액.
\* Korean text is written in Latin letters: segeumgyesanseo is 세금계산서,
\* gonggeupgaaek is 공급가액, suchulsingopiljeung is 수출신고필증, and won is
\* the sign ₩.
Markers == {"invoice no", "segeumgyesanseo", "gonggeupgaaek", "tax invoice",
            "bill of lading", "suchulsingopiljeung"}

NoCount == [m \in Markers |-> 0]

PageText(chars, count, amount) ==
    [chars |-> chars, count |-> count, amount |-> amount]

\* group 1 of the supply_amount pattern: " 1,000,000" and "₩ 2,500"
Amount1 == <<" ", "1", ",", "0", "0", "0", ",", "0", "0", "0">>
Amount2 == <<"won", " ", "2", ",", "5", "0", "0">>

\* the pages a text is made of
PageKinds == {"blank", "tax_short", "tax", "tax5", "inv", "inv_tax",
              "inv_tax_en", "inv_supply", "bl", "export"}

ShortChars == 20
LongChars == 60

Page(kind) ==
    CASE kind = "blank" -> PageText(LongChars, NoCount, <<>>)
      [] kind = "tax_short" ->      \* "세금계산서 공급가액 1,000,000"
           PageText(ShortChars,
                    [NoCount EXCEPT !["segeumgyesanseo"] = 1, !["gonggeupgaaek"] = 1],
                    Amount1)
      [] kind = "tax" ->
           PageText(LongChars,
                    [NoCount EXCEPT !["segeumgyesanseo"] = 1, !["gonggeupgaaek"] = 1],
                    Amount1)
      [] kind = "tax5" ->
           PageText(LongChars,
                    [NoCount EXCEPT !["segeumgyesanseo"] = 3, !["gonggeupgaaek"] = 2],
                    Amount2)
      [] kind = "inv" ->
           PageText(LongChars, [NoCount EXCEPT !["invoice no"] = 1], <<>>)
      [] kind = "inv_tax" ->
           PageText(LongChars,
                    [NoCount EXCEPT !["invoice no"] = 2, !["segeumgyesanseo"] = 1],
                    <<>>)
      [] kind = "inv_tax_en" ->
           PageText(LongChars,
                    [NoCount EXCEPT !["invoice no"] = 1, !["tax invoice"] = 1],
                    <<>>)
      [] kind = "inv_supply" ->
           PageText(LongChars,
                    [NoCount EXCEPT !["invoice no"] = 1, !["gonggeupgaaek"] = 1],
                    Amount1)
      [] kind = "bl" ->
           PageText(LongChars, [NoCount EXCEPT !["bill of lading"] = 1], <<>>)
      [] kind = "export" ->
           PageText(LongChars, [NoCount EXCEPT !["suchulsingopiljeung"] = 1], <<>>)

\* <<needle, marker>>: the pattern or keyword `needle` matches once in the
\* text of `marker`
Occurs ==
    { <<"invoice\\s*(?:no\\.?|number)", "invoice no">>,
      <<"segeumgyesanseo", "segeumgyesanseo">>,
      <<"gonggeupgaaek", "gonggeupgaaek">>,
      <<"bill\\s*of\\s*lading", "bill of lading">>,
      <<"suchulsingopiljeung", "suchulsingopiljeung">>,
      <<"invoice", "invoice no">>,
      <<"invoice", "tax invoice">>,
      <<"tax invoice", "tax invoice">>,
      <<"bill of lading", "bill of lading">>,
      <<"suchulsingo", "suchulsingopiljeung">> }

RECURSIVE SumOf(_, _)
\* sum of f[x] over x in S
SumOf(f, S) ==
    IF S = {} THEN 0
    ELSE LET x == CHOOSE y \in S : TRUE IN f[x] + SumOf(f, S \ {x})

\* len(re.findall(needle, page_text)) / page_text.count(needle)
CountIn(needle, count) ==
    SumOf(count, {m \in Markers : <<needle, m>> \in Occurs})

\* the types of signature_patterns, in the order of the dict
SignatureTypes ==
    <<"invoice", "tax_invoice", "bill_of_lading", "export_declaration">>

\* signature_patterns[doc_type], the patterns that match a marker
signature_patterns(doc_type) ==
    CASE doc_type = "invoice" ->
           [patterns |-> {"invoice\\s*(?:no\\.?|number)"},
            exclusions |-> {"segeumgyesanseo", "tax invoice"}, min_score |-> 1]
      [] doc_type = "tax_invoice" ->
           [patterns |-> {"segeumgyesanseo", "gonggeupgaaek"},
            exclusions |-> {}, min_score |-> 1]
      [] doc_type = "bill_of_lading" ->
           [patterns |-> {"bill\\s*of\\s*lading"},
            exclusions |-> {}, min_score |-> 1]
      [] doc_type = "export_declaration" ->
           [patterns |-> {"suchulsingopiljeung"},
            exclusions |-> {}, min_score |-> 1]

\* `score += len(matches)` over the patterns of the type
PatternScore(doc_type, page) ==
    LET cfg == signature_patterns(doc_type)
        n == [pt \in cfg.patterns |-> CountIn(pt, page.count)]
    IN SumOf(n, cfg.patterns)

Excluded_never(doc_type, page) == FALSE

\* `if exclusion.lower() in page_text_lower`, for some exclusion
Excluded(doc_type, page) ==
    \E x \in signature_patterns(doc_type).exclusions :
      CountIn(x, page.count) > 0

\* a confidence is a fraction num/den
Frac(n, d) == [num |-> n, den |-> d]
FracLeq(a, b) == a.num * b.den <= b.num * a.den
FracMin(a, b) == IF FracLeq(a, b) THEN a ELSE b

\* _calculate_page_scores(page_text, page_num)
calculate_page_scores(page) ==
    [t \in Range(SignatureTypes) |->
       LET excluded == Excluded(t, page)
           score == IF excluded THEN 0 ELSE PatternScore(t, page)
       IN [score |-> score, excluded |-> excluded,
           meets_threshold |->
             score >= signature_patterns(t).min_score /\ ~excluded]]

RECURSIVE DetectTypes_uncapped(_, _, _)
DetectTypes_uncapped(page, n, i) ==
    IF i > Len(SignatureTypes) THEN <<>>
    ELSE LET t == SignatureTypes[i]
             score == PatternScore(t, page)
             found ==
               IF score >= signature_patterns(t).min_score
                  /\ ~Excluded(t, page)
               THEN <<[document_type |-> t,
                       confidence |-> Frac(score, 5),
                       page_range |-> <<n, n>>]>>
               ELSE <<>>
         IN found \o DetectTypes_uncapped(page, n, i + 1)

RECURSIVE DetectTypes(_, _, _)
\* _detect_individual_documents(page_text, page_num), from the i-th type on
DetectTypes(page, n, i) ==
    IF i > Len(SignatureTypes) THEN <<>>
    ELSE LET t == SignatureTypes[i]
             score == PatternScore(t, page)
             found ==
               IF score >= signature_patterns(t).min_score
                  /\ ~Excluded(t, page)
               THEN <<[document_type |-> t,
                       confidence |-> FracMin(Frac(9, 10), Frac(score, 5)),
                       page_range |-> <<n, n>>]>>
               ELSE <<>>
         IN found \o DetectTypes(page, n, i + 1)

detect_individual_documents(page, n) == DetectTypes(page, n, 1)

\* "--- 페이지 N --- " in front of every page, after clean_text
SeparatorChars == 14

\* _split_into_pages: the parts between the separators, when there is more
\* than one of them, else the whole text; then the filter `> 50`
split_into_pages(txt) ==
    LET part(i) == IF Len(txt) = 1
                   THEN [Page(txt[i]) EXCEPT !.chars = @ + SeparatorChars]
                   ELSE Page(txt[i])
        kept == {i \in 1..Len(txt) : part(i).chars > 50}
        idx_of == Sorted(kept)
    IN [k \in 1..Len(idx_of) |-> part(idx_of[k])]

\* DocumentTypeDetector._split_text_by_pages: the text after each
\* separator, when not empty
split_text_by_pages(txt) ==
    LET kept == {i \in 1..Len(txt) : Page(txt[i]).chars > 0}
        idx_of == Sorted(kept)
    IN [k \in 1..Len(idx_of) |-> Page(txt[idx_of[k]])]

\* _extract_text_for_page_range: pages[start_idx:end_idx]
extract_text_for_page_range(txt, page_range) ==
    LET all == split_text_by_pages(txt)
        start_idx == IF page_range[1] - 1 > 0 THEN page_range[1] - 1 ELSE 0
        end_idx == IF page_range[2] < Len(all) THEN page_range[2] ELSE Len(all)
    IN IF end_idx <= start_idx THEN <<>>
       ELSE SubSeq(all, start_idx + 1, end_idx)

\* type_keywords of the legacy detector, in the order of the dict; the
\* keywords that occur in a marker, and the number of keywords of the type
LegacyTypes ==
    <<"tax_invoice", "invoice", "bill_of_lading", "export_declaration">>

type_keywords(doc_type) ==
    CASE doc_type = "tax_invoice" ->
           [primary |-> {"segeumgyesanseo", "tax invoice", "gonggeupgaaek"},
            secondary |-> {}, negative |-> {}, total_keywords |-> 14]
      [] doc_type = "invoice" ->
           [primary |-> {"invoice"}, secondary |-> {},
            negative |-> {"segeumgyesanseo", "tax invoice"},
            total_keywords |-> 15]
      [] doc_type = "bill_of_lading" ->
           [primary |-> {"bill of lading"}, secondary |-> {},
            negative |-> {}, total_keywords |-> 15]
      [] doc_type = "export_declaration" ->
           [primary |-> {"suchulsingo", "suchulsingopiljeung"}, secondary |-> {},
            negative |-> {}, total_keywords |-> 12]

\* marker counts of a text made of several pages
TextCount(ps) ==
    [m \in Markers |-> SumOf([i \in 1..Len(ps) |-> ps[i].count[m]], 1..Len(ps))]

\* stripped length of the whole text: separators, pages, joining blanks
TextChars(txt) ==
    SumOf([i \in 1..Len(txt) |-> SeparatorChars + Page(txt[i]).chars],
          1..Len(txt)) + (Len(txt) - 1)

\* the score of detect_document_type for one type
LegacyScore(doc_type, count) ==
    LET kw == type_keywords(doc_type)
        c == [k \in kw.primary \cup kw.secondary \cup kw.negative |->
                CountIn(k, count)]
    IN 3 * SumOf(c, kw.primary) + SumOf(c, kw.secondary)
       - 2 * SumOf(c, kw.negative)

\* DocumentTypeDetector.detect_document_type(text): (type, confidence)
detect_document_type(txt) ==
    LET count == TextCount([i \in 1..Len(txt) |-> Page(txt[i])])
        sc == [i \in 1..Len(LegacyTypes) |-> LegacyScore(LegacyTypes[i], count)]
        best == Max({sc[i] : i \in 1..Len(LegacyTypes)})
        first == Min({i \in 1..Len(LegacyTypes) : sc[i] = best})
    IN IF TextChars(txt) < 20 \/ best <= 0
       THEN <<"unknown", Frac(0, 1)>>
       ELSE <<LegacyTypes[first],
              FracMin(Frac(1, 1),
                      Frac(best, type_keywords(LegacyTypes[first]).total_keywords * 2))>>

RECURSIVE Strip(_)
\* str.strip()
Strip(str) ==
    IF str = <<>> THEN str
    ELSE IF Head(str) = " " THEN Strip(Tail(str))
    ELSE IF Last(str) = " " THEN Strip(SubSeq(str, 1, Len(str) - 1))
    ELSE str

\* str.replace(c, '') for every c of cs
Remove(str, cs) == SelectSeq(str, LAMBDA c : c \notin cs)

\* pattern.search(text): the match, if any, and its group 1
NoMatch == [matched |-> FALSE, group |-> <<>>]
Match(g) == [matched |-> TRUE, group |-> g]

\* _try_multiple_patterns(patterns_list, text, confidence); found[i] is
\* what patterns_list[i - 1].search(text) gives; field confidences are
\* kept in tenths
try_multiple_patterns(found, confidence) ==
    LET hit == {i \in 1..Len(found) : found[i].matched} IN
      IF hit = {} THEN [found |-> FALSE]
      ELSE LET i == Min(hit) - 1
               adjusted_confidence == confidence - i
           IN [found |-> TRUE, value |-> Strip(found[i + 1].group),
               confidence |-> IF adjusted_confidence > 5
                              THEN adjusted_confidence ELSE 5]

\* the two patterns of supply_amount on a text made of the pages ps: both
\* match at the first 공급가액 that an amount follows
SearchSupplyAmount(ps) ==
    LET with == {i \in 1..Len(ps) :
                   ps[i].count["gonggeupgaaek"] > 0 /\ ps[i].amount # <<>>}
        m == IF with = {} THEN NoMatch ELSE Match(ps[Min(with)].amount)
    IN <<m, m>>

create_field_data(value, confidence) ==
    [value |-> value, confidence |-> confidence]

EmptyData == [k \in {} |-> <<>>]

\* ---------------------------------------------- extraction of the fields
\* The fields followed: for each document type the field that is looked
\* for with an ordered list of patterns, and the date field.
ExtractedTypes ==
    {"invoice", "tax_invoice", "bill_of_lading", "remittance_advice"}

ListField(doc_type) ==
    CASE doc_type = "invoice" -> "invoice_number"
      [] doc_type = "tax_invoice" -> "supply_amount"
      [] doc_type = "bill_of_lading" -> "vessel_name"
      [] doc_type = "remittance_advice" -> "supplier_name"

DateField(doc_type) ==
    CASE doc_type = "tax_invoice" -> "issue_date"
      [] doc_type = "remittance_advice" -> "transfer_date"
      [] OTHER -> "none"

Digits == {"0", "1", "2", "3", "4", "5", "6", "7", "8", "9"}

\* the character of str at position i, "" past the end
CharAt(str, i) == IF i >= 1 /\ i <= Len(str) THEN str[i] ELSE ""

RECURSIVE SkipSpaces(_, _)
\* `\s*` from position i: the first position that holds no blank
SkipSpaces(str, i) ==
    IF CharAt(str, i) = " " THEN SkipSpaces(str, i + 1) ELSE i

\* date_kr, \d{4}[-./년]\s*\d{1,2}[-./월]\s*\d{1,2}[-./일]?, matched at
\* position p: the position of the last character of the match, 0 if none
\* (nyeon, wol and il stand for the characters 년, 월 and 일)
DateKrEnd(str, p) ==
    LET m == SkipSpaces(str, p + 5)
        sep2 == IF CharAt(str, m + 1) \in Digits THEN m + 2 ELSE m + 1
        d == SkipSpaces(str, sep2 + 1)
        last == IF CharAt(str, d + 1) \in Digits THEN d + 1 ELSE d
    IN IF /\ \A i \in p..(p + 3) : CharAt(str, i) \in Digits
          /\ CharAt(str, p + 4) \in {"-", ".", "/", "nyeon"}
          /\ CharAt(str, m) \in Digits
          /\ CharAt(str, sep2) \in {"-", ".", "/", "wol"}
          /\ CharAt(str, d) \in Digits
       THEN IF CharAt(str, last + 1) \in {"-", ".", "/", "il"}
            THEN last + 1 ELSE last
       ELSE 0

\* self.patterns["date_kr"].search(text): the leftmost match, group 0
SearchDateKr(str) ==
    LET starts == {p \in 1..Len(str) : DateKrEnd(str, p) > 0} IN
      IF starts = {} THEN NoMatch
      ELSE Match(SubSeq(str, Min(starts), DateKrEnd(str, Min(starts))))

\* `for pattern in ..._patterns: if match := pattern.search(text): ...
\* break`, with the confidence written in the loop body
first_match(found, confidence) ==
    LET hit == {i \in 1..Len(found) : found[i].matched} IN
      IF hit = {} THEN [found |-> FALSE]
      ELSE [found |-> TRUE, value |-> Strip(found[Min(hit)].group),
            confidence |-> confidence]

\* value[:n]
Truncate(str, n) == IF Len(str) > n THEN SubSeq(str, 1, n) ELSE str

OneField(name, hit, value) ==
    IF hit.found
    THEN [k \in {name} |-> create_field_data(value, hit.confidence)]
    ELSE EmptyData

\* the union of two dicts with different keys
Merge(d1, d2) ==
    [k \in DOMAIN d1 \cup DOMAIN d2 |->
       IF k \in DOMAIN d1 THEN d1[k] ELSE d2[k]]

\* the date field of a type: the matched text as it is
DateData(name, str) ==
    LET m == SearchDateKr(str) IN
      IF m.matched
      THEN [k \in {name} |-> create_field_data(Strip(m.group), 8)]
      ELSE EmptyData

\* extract_data(text, document_type, engine): the dict of the fields
\* followed; found is what the patterns of the type's list field give on
\* the text, str the part of the text that holds a date
extract_data(found, str, doc_type) ==
    CASE doc_type = "invoice" ->
           LET hit == first_match(found, 9) IN
             OneField("invoice_number", hit, Strip(hit.value))
      [] doc_type = "tax_invoice" ->
           LET hit == try_multiple_patterns(found, 9) IN
             Merge(OneField("supply_amount", hit,
                            Strip(Remove(hit.value, {",", "won"}))),
                   DateData("issue_date", str))
      [] doc_type = "bill_of_lading" ->
           LET hit == try_multiple_patterns(found, 8) IN
             OneField("vessel_name", hit, Truncate(hit.value, 50))
      [] doc_type = "remittance_advice" ->
           LET hit == first_match(found, 9) IN
             Merge(DateData("transfer_date", str),
                   OneField("supplier_name", hit, Strip(hit.value)))
      [] OTHER -> EmptyData

\* what the patterns of the list field of a type give on the pages ps
SearchListField(ps, doc_type) ==
    IF doc_type = "tax_invoice" THEN SearchSupplyAmount(ps) ELSE <<>>

\* total_pages of the result: the page count of the file
TotalPages(txt) == Len(txt)

\* the DocumentDetection process_pdf builds for one detected span
SpanDetection(txt, doc) ==
    [document_type |-> doc.document_type,
     confidence |-> doc.confidence,
     page_range |-> doc.page_range,
     extracted_data |->
       LET ps == extract_text_for_page_range(txt, doc.page_range) IN
         extract_data(SearchListField(ps, doc.document_type), <<>>,
                      doc.document_type)]

\* the DocumentDetection of the fallback branch
FallbackDetection(txt) ==
    LET d == detect_document_type(txt) IN
      [document_type |-> d[1],
       confidence |-> d[2],
       page_range |-> <<1, TotalPages(txt)>>,
       extracted_data |->
         extract_data(SearchListField([i \in 1..Len(txt) |-> Page(txt[i])],
                                      d[1]), <<>>, d[1])]

\* texts of one to MaxPages pages
Texts == UNION {[1..n -> PageKinds] : n \in 1..MaxPages}

DetectorInit ==
    /\ PipelineIdle /\ ExpanderIdle /\ ExtractorIdle
    /\ text \in Texts
    /\ pages = <<>> /\ page_num = 0
    /\ individual_docs = <<>> /\ page_scores = <<>>
    /\ detections = <<>>
    /\ dpc = "called"

\* `pages = self._split_into_pages(text)`
SplitIntoPages ==
    /\ dpc = "called"
    /\ pages' = split_into_pages(text)
    /\ page_num' = 1
    /\ dpc' = "paging"
    /\ UNCHANGED <<pipeline, expander, extractor, text, individual_docs, page_scores,
                   detections>>

\* one iteration of `for page_num, page_text in enumerate(pages, 1)`
DetectPage ==
    /\ dpc = "paging"
    /\ page_num <= Len(pages)
    /\ individual_docs' =
         individual_docs \o detect_individual_documents(pages[page_num],
                                                       page_num)
    /\ page_num' = page_num + 1
    /\ UNCHANGED <<pipeline, expander, extractor, text, pages, page_scores, detections,
                   dpc>>

\* `merged_docs = individual_docs` and the return
ReturnDocs ==
    /\ dpc = "paging"
    /\ page_num > Len(pages)
    /\ dpc' = "detected"
    /\ UNCHANGED <<pipeline, expander, extractor, text, pages, page_num,
                   individual_docs, page_scores, detections>>

\* process_pdf: a DocumentDetection for every span, or the fallback to the
\* legacy detector when there is none
BuildDetections ==
    /\ dpc = "detected"
    /\ detections' =
         IF individual_docs # <<>>
         THEN [i \in 1..Len(individual_docs) |->
                 SpanDetection(text, individual_docs[i])]
         ELSE <<FallbackDetection(text)>>
    /\ dpc' = "done"
    /\ UNCHANGED <<pipeline, expander, extractor, text, pages, page_num,
                   individual_docs, page_scores>>

\* _calculate_page_scores on each of the pages
CalculatePageScores ==
    /\ dpc = "paging"
    /\ page_num = 1
    /\ pages # <<>>
    /\ page_scores' = [i \in 1..Len(pages) |-> calculate_page_scores(pages[i])]
    /\ dpc' = "scored"
    /\ UNCHANGED <<pipeline, expander, extractor, text, pages, page_num,
                   individual_docs, detections>>

DetectorNext ==
    \/ SplitIntoPages
    \/ DetectPage
    \/ ReturnDocs
    \/ BuildDetections
    \/ CalculatePageScores

DetectorSpec == DetectorInit /\ [][DetectorNext]_vars

\* --------------------------------------------------- extract_data alone
\* patterns in a list
MaxPatterns == 5

\* group 1 of the i-th pattern of a list, told apart by its length
GroupOf(i) == <<" ", "N">> \o [j \in 1..i |-> "1"]

\* what a list of n patterns can give on a text
SearchResults(n) ==
    {q \in [1..n -> BOOLEAN \X (1..n)] :
       \A i \in 1..n : q[i][2] = i}

AsSearches(q) ==
    [i \in 1..Len(q) |-> IF q[i][1] THEN Match(GroupOf(i)) ELSE NoMatch]

\* texts around a date
DateTexts ==
    { <<>>,
      <<"2", "0", "2", "4", "-", "0", "1", "-", "1", "5">>,
      <<"2", "0", "2", "4", "-", "0", "1", "-", "1", "5", ".">>,
      <<"2", "0", "2", "4", ".", "1", ".", "5">>,
      <<"2", "0", "2", "4", "/", "0", "1", "/", "1", "5">>,
      <<"2", "0", "2", "4", "nyeon", " ", "1", "wol", " ", "1", "5", "il">>,
      <<"2", "0", "2", "4", "-", "1", "3", "-", "4", "5">>,
      <<"1", "5", "/", "0", "1", "/", "2", "0", "2", "4">>,
      <<":", " ", "2", "0", "2", "4", "-", "0", "1", "-", "1", "5", " ">> }

ExtractorInit ==
    /\ PipelineIdle /\ ExpanderIdle /\ DetectorIdle
    /\ document_type \in ExtractedTypes
    /\ \E n \in 1..MaxPatterns : \E q \in SearchResults(n) :
         searches = AsSearches(q)
    /\ date_text \in DateTexts
    /\ data = <<>>
    /\ xpc = "called"

\* the call and its return
ExtractData ==
    /\ xpc = "called"
    /\ data' = extract_data(searches, date_text, document_type)
    /\ xpc' = "returned"
    /\ UNCHANGED <<pipeline, expander, detector, document_type, searches,
                   date_text>>

ExtractorNext == ExtractData

ExtractorSpec == ExtractorInit /\ [][ExtractorNext]_vars

\* ------------------------------------------------------------ properties
\* the acceptance test as the specification words it, written out
Exceeds(a) ==
    /\ ~a[2].raised
    /\ a[2].len > (IF a[1] = "upstage" THEN 20 ELSE 50)

Short(a) == ~a[2].raised /\ ~Exceeds(a)

LogEngines(f) == {attempts[f][i][1] : i \in 1..Len(attempts[f])}

HasResult(f) == pc[f] = "assembled" /\ result[f].status # "none"

\* C1: extract_text_from_pdf returns the result of the first provider of the
\* attempt order whose text is longer than that provider's minimum; nothing
\* is invoked after the accepted provider and nothing is invoked twice.
C1_FirstAcceptedWins ==
    \A f \in Files :
      LET a == attempts[f]  n == Len(attempts[f]) IN
        /\ \A i \in 1..n : a[i][1] = order[f][i]
        /\ \A i, j \in 1..n : i # j => a[i][1] # a[j][1]
        /\ \A i \in 1..n : i < n => ~Exceeds(a[i])
        /\ inflight[f] \cap LogEngines(f) = {}
        /\ (n > 0 /\ Exceeds(a[n])) => inflight[f] = {}
        /\ pc[f] = "extracted" =>
             /\ n > 0 /\ Exceeds(a[n])
             /\ order[f][idx[f]] = a[n][1]
        /\ (HasResult(f) /\ result[f].status = "completed") =>
             /\ n > 0 /\ Exceeds(a[n])
             /\ result[f].primary_engine = a[n][1]
        /\ pc[f] = "exhausted" =>
             /\ n = Len(order[f])
             /\ \A i \in 1..n : ~Exceeds(a[i])

C1_Witness ==
    \E f \in Files :
      /\ HasResult(f) /\ result[f].status = "completed"
      /\ Len(attempts[f]) = 3
      /\ Short(attempts[f][1]) /\ attempts[f][2][2].raised
      /\ attempts[f][3][2].len = 51

PosInDefault(e) == CHOOSE i \in 1..Len(default_order) : default_order[i] = e

\* C2: the attempt order is a permutation of the four providers, preferred
\* provider first, the other three in the order of the default list; at no
\* time are two providers of one file in flight.
C2_OrderAndSequential ==
    \A f \in Files :
      /\ order[f] # <<>> =>
           /\ Len(order[f]) = 4
           /\ Range(order[f]) = Engines
           /\ order[f][1] = preferred
           /\ \A i, j \in 2..4 :
                i < j => PosInDefault(order[f][i]) < PosInDefault(order[f][j])
      /\ Cardinality(inflight[f]) <= 1
      /\ inflight[f] # {} =>
           /\ pc[f] \in {"calling", "awaiting", "hung"}
           /\ inflight[f] = {order[f][idx[f]]}

C2_Witness ==
    \E f \in Files :
      /\ preferred = "pdfplumber"
      /\ order[f] = <<"pdfplumber", "upstage", "pymupdf", "tesseract">>
      /\ pc[f] = "awaiting" /\ inflight[f] = {"upstage"}
      /\ Len(attempts[f]) = 1

\* C3: when every provider is exhausted, the error carries the error of the
\* last provider of the attempt order as its cause.
C3_CauseIsLastProvider ==
    \A f \in Files :
      (HasResult(f) /\ Len(attempts[f]) = 4 /\ result[f].status = "failed") =>
        /\ Len(result[f].errors) = 1
        /\ result[f].errors[1].kind = "RuntimeError"
        /\ result[f].errors[1].cause = order[f][4]

BatchDone == \A f \in files : pc[f] = "collected"

Invalid(f) == file_kind[f] \in FileKinds \ {"ok"}

\* C4: a file that fails validation (missing, not .pdf, unreadable, zero
\* pages) has no provider invoked, leaves the provider statistics as they
\* were, and gets a result whose status is failed.
C4_InvalidInput ==
    /\ [](\A f \in Files :
            Invalid(f) =>
              /\ attempts[f] = <<>> /\ inflight[f] = {} /\ order[f] = <<>>
              /\ pc[f] \in {"status_set", "assembled", "returned", "collected"}
              /\ result[f].status = "failed"
              /\ result[f].file = f
              /\ Len(result[f].errors) = 1)
    /\ [][\A f \in Files :
            (file_kind[f] = "unknown" /\ Invalid(f)') =>
               engine_stats' = engine_stats]_vars

C4_Witness ==
    /\ BatchDone /\ Cardinality(files) > 1
    /\ file_kind[1] = "ok" /\ result[1].primary_engine = "pymupdf"
    /\ \E f \in files : file_kind[f] = "zero_pages"
    /\ engine_stats["pymupdf"].success = 1
    /\ \A e \in Engines \ {"pymupdf"} : engine_stats[e].success = 0
    /\ \A e \in Engines \ {"upstage"} : engine_stats[e].failure = 0

RaisedThenAccepted(f) ==
    \E i, j \in 1..Len(attempts[f]) :
      i < j /\ attempts[f][i][2].raised /\ Exceeds(attempts[f][j])

\* C5: if provider A raises and a later provider B returns text longer than
\* B's threshold, the file's result has primary_engine B, status completed
\* and an empty errors list.
C5_FallbackIsSilent ==
    \A f \in Files :
      (HasResult(f) /\ RaisedThenAccepted(f)) =>
        /\ result[f].primary_engine = attempts[f][Len(attempts[f])][1]
        /\ result[f].extraction_engines_used =
             <<attempts[f][Len(attempts[f])][1]>>
        /\ result[f].status = "completed"
        /\ result[f].errors = <<>>

C5_Witness ==
    \E f \in Files :
      /\ HasResult(f) /\ RaisedThenAccepted(f)
      /\ result[f].primary_engine # preferred

WarnedEngines(r) == {r.warnings[i].cause : i \in 1..Len(r.warnings)}

\* C6: A raises, B returns under-threshold text, C is accepted: the result
\* names C, has no error, and lists the failures of A and B as warnings.
C6_FailuresAreWarnings ==
    \A f \in Files :
      (/\ HasResult(f) /\ Len(attempts[f]) = 3
       /\ attempts[f][1][2].raised
       /\ Short(attempts[f][2])
       /\ Exceeds(attempts[f][3])) =>
        /\ result[f].primary_engine = attempts[f][3][1]
        /\ result[f].errors = <<>>
        /\ {attempts[f][1][1], attempts[f][2][1]} \subseteq
             WarnedEngines(result[f])

InCall(f) == pc[f] \in {"calling", "awaiting", "hung"}

\* C7: every provider call is bounded by a timeout, so a call that is in
\* flight is eventually over and extract_text_from_pdf returns or raises.
C7_CallsEnd ==
    \A f \in Files : InCall(f) ~> ~InCall(f)

ResultFiles == {results[i].file : i \in 1..Len(results)}

\* C8: in a batch, sequential or parallel, a failing file does not abort
\* its siblings: there is exactly one result per submitted file, each one
\* the result computed for its file, the failed ones with status failed.
C8_OneResultPerFile ==
    /\ \A i, j \in 1..Len(results) :
         i # j => results[i].file # results[j].file
    /\ \A i \in 1..Len(results) :
         /\ results[i].file \in files
         /\ results[i] = result[results[i].file]
         /\ results[i].status \in {"completed", "failed"}
         /\ results[i].errors # <<>> => results[i].status = "failed"
    /\ ResultFiles = {f \in files : pc[f] = "collected"}
    /\ BatchDone => (Len(results) = Cardinality(files) /\ ResultFiles = files)

C8_Witness ==
    /\ BatchDone /\ ParallelMode
    /\ Len(results) = NumFiles
    /\ results[1].status = "failed" /\ results[1].file = NumFiles
    /\ results[Len(results)].status = "completed"

InPipeline(f) ==
    pc[f] \in {"entered", "loop", "calling", "awaiting", "hung", "extracted",
               "exhausted", "status_set", "assembled"}

\* C9: in parallel mode at most max_workers files are inside the pipeline
\* at any moment, and every submitted file eventually enters and leaves it.
C9_BoundedAndLive ==
    /\ [](ParallelMode =>
            Cardinality({f \in files : InPipeline(f)}) <= max_workers)
    /\ \A f \in Files :
         (f \in files /\ pc[f] \in {"queued", "waiting"}) ~> InPipeline(f)
    /\ \A f \in Files : InPipeline(f) ~> pc[f] = "collected"

AllFinished == \A f \in files : pc[f] \in {"returned", "collected"}

AcceptedFrom(e) ==
    {f \in files : result[f].status = "completed"
                   /\ result[f].primary_engine = e}

\* C10: no update of the shared statistics is lost: once all files of the
\* batch are finished, each provider's success count is the number of
\* results accepted from it and its failure count the number of its calls
\* that raised.
C10_NoLostUpdate ==
    AllFinished =>
      \A e \in Engines :
        /\ engine_stats[e].success = Cardinality(AcceptedFrom(e))
        /\ engine_stats[e].failure = raised[e]

C10_Witness ==
    /\ AllFinished /\ ParallelMode
    /\ engine_stats["upstage"].failure = 2
    /\ engine_stats["pymupdf"].success = 2

Terminal(r) == r.status \in {"completed", "failed"}

\* C11: once the status of a result is completed or failed, no later step
\* (the tail of process_pdf, the per-file post-processing of the command
\* line, the saving of the results) changes any field of the result, of
\* its documents or of their fields.
C11_FrozenWhenTerminal ==
    [][\A f \in Files : Terminal(result[f]) => result'[f] = result[f]]_vars

\* C12: when the text was extracted and no page meets the threshold of any
\* document type (the enhanced detector finds no span), the result is
\* completed with an empty documents list, a warning and no error.
C12_ClassificationEmpty ==
    [][\A f \in Files :
         (\E t \in DetectedTypes : Classify(f, 0, t)) =>
           /\ result'[f].status = "completed"
           /\ result'[f].detected_documents = <<>>
           /\ result'[f].warnings # <<>>
           /\ result'[f].errors = <<>>]_vars

InRange(n, r) == r[1] <= n /\ n <= r[2]

\* C13: the ranges put two strong pages in one range only if every page
\* number between them is strong too: two strong pages with a page that
\* is not strong between them never share a range, and the strong pages
\* of a group are consecutive.
C13_BoundaryConservatism ==
    /\ rpc \in {"grouped", "returned"} =>
         \A g \in 1..Len(groups) :
           /\ groups[g] # <<>>
           /\ \A i \in 1..(Len(groups[g]) - 1) :
                groups[g][i + 1] = groups[g][i] + 1
    /\ rpc = "returned" =>
         /\ \A a, b \in strong_pages :
              (a < b /\ \E r \in Range(ranges) : InRange(a, r) /\ InRange(b, r))
                => \A n \in a..b : n \in strong_pages
         /\ \A a \in strong_pages : \E r \in Range(ranges) : InRange(a, r)

C13_Witness ==
    /\ rpc = "returned"
    /\ strong_pages = {1, 2, 4}
    /\ weak_pages = {}
    /\ ranges = <<<<1, 2>>, <<4, 4>>>>

DocsOfType(docs, t) == SelectSeq(docs, LAMBDA d : d.document_type = t)

\* C15: N consecutive pages that each meet the threshold of bill of lading
\* (or of export declaration), with no gap, give one span over pages 1..N.
C15_ContiguousPagesOneSpan ==
    \A n \in 1..MaxPages :
      \A k \in {<<"bl", "bill_of_lading">>, <<"export", "export_declaration">>} :
        (dpc \in {"detected", "done"} /\ text = [i \in 1..n |-> k[1]]) =>
          /\ Len(DocsOfType(individual_docs, k[2])) = 1
          /\ DocsOfType(individual_docs, k[2])[1].page_range = <<1, n>>

\* an exclusion marker of the type occurs in the page
HasExclusionMarker(t, page) ==
    /\ t = "invoice"
    /\ page.count["segeumgyesanseo"] > 0 \/ page.count["tax invoice"] > 0

\* the positive matches of the type in the page
PositiveMatches(t, page) ==
    CASE t = "invoice" -> page.count["invoice no"]
      [] t = "tax_invoice" ->
           page.count["segeumgyesanseo"] + page.count["gonggeupgaaek"]
      [] t = "bill_of_lading" -> page.count["bill of lading"]
      [] t = "export_declaration" -> page.count["suchulsingopiljeung"]

DetectedOn(t, n) ==
    \E i \in 1..Len(individual_docs) :
      /\ individual_docs[i].document_type = t
      /\ individual_docs[i].page_range = <<n, n>>

\* C16: when an exclusion marker of a type occurs in a page, the score of
\* the type is 0 and the type is not detected on the page, whatever matches
\* it has; meets_threshold holds exactly when the score reaches min_score
\* and the type is not excluded. A page with invoice markers and the
\* marker 세금계산서 (or "tax invoice") is never detected as invoice.
C16_ExclusionForcesZero ==
    /\ dpc = "scored" =>
         \A i \in 1..Len(pages) : \A t \in Range(SignatureTypes) :
           LET sc == page_scores[i][t] IN
             /\ sc.excluded <=> HasExclusionMarker(t, pages[i])
             /\ HasExclusionMarker(t, pages[i]) =>
                  sc.score = 0 /\ ~sc.meets_threshold
             /\ ~HasExclusionMarker(t, pages[i]) =>
                  sc.score = PositiveMatches(t, pages[i])
             /\ sc.meets_threshold <=>
                  (sc.score >= 1 /\ ~HasExclusionMarker(t, pages[i]))
    /\ dpc \in {"paging", "detected", "done"} =>
         \A i \in 1..Len(pages) : \A t \in Range(SignatureTypes) :
           i < page_num =>
             (DetectedOn(t, i) <=>
                (PositiveMatches(t, pages[i]) >= 1
                 /\ ~HasExclusionMarker(t, pages[i])))

C16_Witness ==
    /\ dpc = "done"
    /\ text = <<"inv", "inv_tax">>
    /\ DetectedOn("invoice", 1) /\ ~DetectedOn("invoice", 2)
    /\ DetectedOn("tax_invoice", 2)

\* C17: the spans returned by the detection of a file are sorted by
\* non-increasing confidence.
C17_SortedByConfidence ==
    /\ dpc \in {"detected", "done"} =>
         \A i \in 1..(Len(individual_docs) - 1) :
           FracLeq(individual_docs[i + 1].confidence,
                   individual_docs[i].confidence)
    /\ dpc = "done" =>
         \A i \in 1..(Len(detections) - 1) :
           FracLeq(detections[i + 1].confidence, detections[i].confidence)

\* C19: a text of three pages, the first being the short
\* "세금계산서 공급가액 1,000,000" and the others without signal, gives
\* exactly one document, tax_invoice, over pages (1, 1), with a
\* supply_amount field of value 1000000.
C19_ShortTaxInvoicePage ==
    (dpc = "done" /\ text = <<"tax_short", "blank", "blank">>) =>
      /\ Len(detections) = 1
      /\ detections[1].document_type = "tax_invoice"
      /\ detections[1].page_range = <<1, 1>>
      /\ "supply_amount" \in DOMAIN detections[1].extracted_data
      /\ detections[1].extracted_data["supply_amount"].value =
           <<"1", "0", "0", "0", "0", "0", "0">>

\* the base confidence the extractor names for the list field of a type
BaseConfidence(doc_type) == IF doc_type = "bill_of_lading" THEN 8 ELSE 9

\* the zero-based index of the first pattern that matched
FirstMatched == Min({i \in 1..Len(searches) : searches[i].matched}) - 1

\* C18: when a field is extracted from an ordered list of patterns, the
\* first pattern that matches gives the value, and the confidence of the
\* field is the base confidence less 0.1 for each pattern tried before
\* it, never under 0.5 (in tenths: max(5, base - i))
C18_ConfidenceDropsPerPattern ==
    (xpc = "returned" /\ \E i \in 1..Len(searches) : searches[i].matched)
      => LET k == ListField(document_type)
             expected == BaseConfidence(document_type) - FirstMatched
         IN /\ k \in DOMAIN data
            /\ data[k].value = Strip(GroupOf(FirstMatched + 1))
            /\ data[k].confidence = Max({5, expected})

\* the form YYYY-MM-DD
IsIsoDate(str) ==
    /\ Len(str) = 10
    /\ \A i \in {1, 2, 3, 4, 6, 7, 9, 10} : str[i] \in Digits
    /\ str[5] = "-" /\ str[8] = "-"

\* C20: a date field of the extracted data, when present, holds a date
\* written YYYY-MM-DD
C20_DateFieldsNormalised ==
    xpc = "returned"
      => \A k \in DOMAIN data \cap {DateField(document_type)} :
           IsIsoDate(data[k].value)

Finished(f) == f \in files /\ pc[f] \in {"returned", "collected"}

\* every provider asked in both runs answered the same in both, and the
\* detectors found the same on the accepted text
SameOutcomes(f, g) ==
    LET a == run_log[f].calls  b == run_log[g].calls IN
      /\ file_kind[f] = file_kind[g]
      /\ \A i \in 1..Len(a), j \in 1..Len(b) :
           a[i][1] = b[j][1] => a[i][2] = b[j][2]
      /\ (run_log[f].detected # <<>> /\ run_log[g].detected # <<>>) =>
           run_log[f].detected = run_log[g].detected

\* the same result but for the path, the timestamps and the duration
SameResult(r1, r2) ==
    /\ r1.status = r2.status
    /\ r1.primary_engine = r2.primary_engine
    /\ r1.extraction_engines_used = r2.extraction_engines_used
    /\ r1.errors = r2.errors
    /\ r1.warnings = r2.warnings
    /\ r1.detected_documents = r2.detected_documents

WeightedScore(t, page, primary) ==
    LET cfg == signature_patterns(t)
        n == [x \in cfg.patterns \cup cfg.exclusions |->
                CountIn(x, page.count)]
    IN 3 * SumOf(n, primary) + SumOf(n, cfg.patterns \ primary)
       - 2 * SumOf(n, cfg.exclusions)

\* C22: the page score of a type is 3 per occurrence of a primary pattern
\* plus 1 per occurrence of a secondary pattern minus 2 per occurrence of
\* an exclusion of the type, for some split of the patterns of the type
\* into primary and secondary ones.
C22_WeightedPageScore ==
    dpc = "scored" =>
      \A i \in 1..Len(pages) : \A t \in Range(SignatureTypes) :
        \E primary \in SUBSET signature_patterns(t).patterns :
          page_scores[i][t].score = WeightedScore(t, pages[i], primary)

\* the calls of provider e that returned, over all files
Invocations(e) ==
    LET n == [f \in Files |->
                Cardinality({i \in 1..Len(run_log[f].calls) :
                               run_log[f].calls[i][1] = e})]
    IN SumOf(n, Files)

\* C23: every provider attempt is recorded in the counters of its
\* provider: success count plus failure count is the number of times the
\* provider was invoked and answered, answers with an empty or too short
\* text included.
C23_EveryAttemptCounted ==
    \A e \in Engines :
      engine_stats[e].success + engine_stats[e].failure = Invocations(e)

\* the stripped length of the text a provider returned is over the minimum
\* of that provider: 20 for upstage, 50 for the others
OverMinimum(a) ==
    /\ ~a[2].raised
    /\ \/ a[1] = "upstage" /\ a[2].len >= 21
       \/ a[1] # "upstage" /\ a[2].len >= 51

\* C24: the acceptance test is strict and per provider: a text is accepted
\* exactly when its trimmed length is over 20 for upstage and over 50 for
\* every other provider; after a text of exactly the minimum length, an
\* empty text or None, the next provider of the order is tried.
C24_StrictThresholds ==
    \A f \in Files :
      LET a == attempts[f]  n == Len(attempts[f]) IN
        /\ \A i \in 1..(n - 1) : ~OverMinimum(a[i])
        /\ (n > 0 /\ OverMinimum(a[n])) => pc[f] \notin {"loop", "exhausted",
                                                         "calling", "awaiting"}
        /\ (n > 0 /\ ~OverMinimum(a[n])) =>
             /\ pc[f] # "extracted"
             /\ result[f].status # "completed"
             /\ idx[f] = n + 1
             /\ n < Len(order[f]) =>
                  pc[f] \in {"loop", "calling", "awaiting", "hung"}
        /\ pc[f] = "extracted" => (n > 0 /\ OverMinimum(a[n]))

C24_Witness ==
    /\ pc[1] = "extracted"
    /\ attempts[1] = << <<"upstage", Text(20)>>, <<"pymupdf", Text(50)>>,
                        <<"pdfplumber", Text(21)>>, <<"tesseract", Text(51)>> >>

\* C25: every group of strong pages gets a range (start, end) with
\* start <= end that holds the whole group, reaches at most one page
\* before its first page and one page after its last, and reaches only
\* onto weak pages; no strong page, no range.
C25_ExpansionBounded ==
    rpc = "returned" =>
      /\ strong_pages = {} => ranges = <<>>
      /\ strong_pages # {} =>
           /\ Len(ranges) = Len(groups)
           /\ \A g \in 1..Len(groups) :
                LET first == groups[g][1]
                    final == Last(groups[g])
                    r == ranges[g]
                IN /\ r[1] <= r[2]
                   /\ first - 1 <= r[1] /\ r[1] <= first
                   /\ final <= r[2] /\ r[2] <= final + 1
                   /\ r[1] < first => r[1] \in weak_pages
                   /\ r[2] > final => r[2] \in weak_pages
                   /\ \A n \in r[1]..r[2] :
                        n \in strong_pages \cup weak_pages

C25_Witness ==
    /\ rpc = "returned"
    /\ strong_pages = {2, 3} /\ weak_pages = {1, 4}
    /\ groups = << <<2, 3>> >>
    /\ ranges = << <<1, 4>> >>

FracEq(a, b) == a.num * b.den = b.num * a.den
FracLess(a, b) == a.num * b.den < b.num * a.den

\* the average score of the type of a span over the pages it covers
AverageScore(doc) ==
    LET r == doc.page_range
        sc == [k \in r[1]..r[2] |->
                 calculate_page_scores(pages[k])[doc.document_type].score]
    IN Frac(SumOf(sc, r[1]..r[2]), r[2] - r[1] + 1)

\* s / 5
Fifth(s) == Frac(s.num, 5 * s.den)

\* C26: the confidence of every span the detector returns is min(0.9, s/5)
\* with s the average score of its type over the pages it covers: it is
\* above 0 and at most 0.9, it is 0.9 when s >= 4.5, and of two spans with
\* s below 4.5 the one with the larger s has the larger confidence.
C26_SpanConfidence ==
    dpc \in {"paging", "detected", "done"} =>
      /\ \A i \in 1..Len(individual_docs) :
           LET d == individual_docs[i]
               s == AverageScore(d)
           IN /\ d.page_range[1] >= 1 /\ d.page_range[2] <= Len(pages)
              /\ FracEq(d.confidence, FracMin(Frac(9, 10), Fifth(s)))
              /\ FracLess(Frac(0, 1), d.confidence)
              /\ FracLeq(d.confidence, Frac(9, 10))
              /\ FracLeq(Frac(9, 2), s) => FracEq(d.confidence, Frac(9, 10))
      /\ \A i, j \in 1..Len(individual_docs) :
           LET si == AverageScore(individual_docs[i])
               sj == AverageScore(individual_docs[j])
           IN (FracLess(si, sj) /\ FracLess(sj, Frac(9, 2))) =>
                FracLess(individual_docs[i].confidence,
                         individual_docs[j].confidence)

C26_Witness ==
    /\ dpc = "done"
    /\ text = <<"tax5", "inv", "tax">>
    /\ Len(individual_docs) = 3
    /\ individual_docs[1].confidence = Frac(9, 10)
    /\ individual_docs[2].confidence = Frac(1, 5)
    /\ individual_docs[3].confidence = Frac(2, 5)

\* the documents process_single_pdf returns for a file whose text was
\* accepted from provider e, the detectors having found d = (n, t) on it
DocumentsOf(d, e) == ReExtract([detected_documents |-> Detections(d[1], d[2], e)],
                              preferred).detected_documents

\* C27: the results are in the list in the order in which the files were
\* finished, not in the order in which they were submitted, and each one
\* is the result of the file whose path it carries: its status and its
\* documents are the ones computed for that path, and once the batch is
\* over the paths of the results are the submitted paths, each once.
C27_CompletionOrder ==
    /\ \A i, j \in 1..Len(results) :
         i < j => /\ results[i].file # results[j].file
                  /\ run_log[results[i].file].finished <
                       run_log[results[j].file].finished
    /\ \A i \in 1..Len(results) :
         LET f == results[i].file IN
           /\ f \in files /\ run_log[f].finished > 0
           /\ results[i] = result[f]
           /\ results[i].status = "completed" <=> run_log[f].detected # <<>>
           /\ results[i].status = "completed" =>
                results[i].detected_documents =
                  DocumentsOf(run_log[f].detected, results[i].primary_engine)
           /\ results[i].status # "completed" =>
                results[i].detected_documents = <<>>
    /\ \A i \in 1..Len(completed) :
         \A j \in 1..Len(results) :
           run_log[results[j].file].finished <
             run_log[completed[i]].finished
    /\ BatchDone => (Len(results) = Cardinality(files) /\ ResultFiles = files)

C27_Witness ==
    /\ BatchDone /\ ParallelMode
    /\ results[1].file = 2 /\ results[2].file = 1
    /\ results[1].status = "completed" /\ results[2].status = "completed"
    /\ results[1].primary_engine = "pymupdf"
    /\ results[2].primary_engine = "upstage"
    /\ results[1].detected_documents # results[2].detected_documents

\* two page texts with the same markers and the same amount text (the
\* separator line left aside)
SameContent(p, q) == p.count = q.count /\ p.amount = q.amount

\* C28: for every span (s, e) of the detector, the text handed to the
\* field extractor is the text of the pages that were scored as pages
\* s..e: the numbering of _split_into_pages and the numbering of
\* _split_text_by_pages agree.
C28_PageNumberingAgrees ==
    dpc \in {"detected", "done"} =>
      \A i \in 1..Len(individual_docs) :
        LET r == individual_docs[i].page_range
            handed == extract_text_for_page_range(text, r)
        IN /\ Len(handed) = r[2] - r[1] + 1
           /\ \A k \in 1..Len(handed) :
                SameContent(handed[k], pages[r[1] + k - 1])

\* C29: in every result process_single_pdf returns, the extraction_engine
\* of the fields of every document is the primary_engine of the result,
\* the provider whose text was accepted, also after a fallback.
C29_FieldEngineIsPrimary ==
    \A f \in Files :
      (Finished(f) /\ result[f].status = "completed") =>
        \A i \in 1..Len(result[f].detected_documents) :
          LET d == result[f].detected_documents[i] IN
            d.extraction_engine # NoEngine =>
              d.extraction_engine = result[f].primary_engine

\* the provider whose text was accepted in the run of f
AcceptedEngine(f) == Last(run_log[f].calls)[1]

\* C30: every result returned for a file has the status completed or
\* failed; it is failed exactly when its errors list is not empty; a
\* completed result has the accepted provider as primary_engine and as
\* the only entry of extraction_engines_used.
C30_TerminalStatus ==
    \A f \in Files :
      Finished(f) =>
        /\ result[f].file = f
        /\ result[f].status \in {"completed", "failed"}
        /\ result[f].status = "failed" <=> result[f].errors # <<>>
        /\ result[f].status = "completed" =>
             /\ run_log[f].calls # <<>>
             /\ OverMinimum(Last(run_log[f].calls))
             /\ result[f].primary_engine = AcceptedEngine(f)
             /\ result[f].extraction_engines_used = <<AcceptedEngine(f)>>

C30_Witness ==
    /\ BatchDone /\ files = Files
    /\ results[1].status = "failed" /\ Len(results[1].errors) = 1
    /\ Len(run_log[results[1].file].calls) = 4
    /\ results[2].status = "completed"
    /\ results[2].primary_engine = "tesseract"
    /\ results[2].extraction_engines_used = <<"tesseract">>

====
